---- MODULE Spec2Model ----
(***************************************************************************)
(* Model of the deployment orchestration pipeline and the infrastructure   *)
(* command runner of azure_mcp_agent_hassen:                                *)
(*   - CD/terraform/services/tf_manager.py   (init / plan / apply / destroy)*)
(*   - server.py                             (the /terraform/* handlers and *)
(*                                            the init tracking dictionary) *)
(*   - azure/services/deployment.py          (deploy_complete_application,  *)
(*                                            cleanup_deployment)           *)
(*   - azure/services/acr.py, helm.py        (the external sub-steps)       *)
(* External tools (az, terraform, docker, kubectl, helm) are the            *)
(* environment: each invocation draws its outcome from a small set.         *)
(***************************************************************************)
EXTENDS Integers, Sequences, FiniteSets, TLC

VARIABLES
    az_account,              \* environment: state of the az CLI session
    dir_exists,              \* file system: does the working directory exist
    tf_files,                \* file system: the *.tf files of a directory
    tf_content,              \* file system: what main.tf and backend.tf hold
    generated,               \* history: the last write_tf_file call
    running,                 \* the operation in progress and its position
    provisioned,             \* cloud: infrastructure applied from a directory
    terraform_init_status,   \* server.py: dict repo_path -> bool
    init_ok,                 \* history: keys on which an init has succeeded
    in_flight,               \* /terraform/init requests in their worker thread
    overlapped,              \* history: inits during which a generate returned
    last,                    \* history: the last lifecycle verb call
    pc,                      \* deploy_complete_application: position
    config,                  \* deploy_complete_application: its argument
    deployment_results,      \* deploy_complete_application: the result dict
    registry_result,         \* deploy_complete_application: stage 2 result
    trace,                   \* external commands run by the current operation
    kube_context,            \* environment: cluster bound in the kubeconfig
    releases,                \* environment: helm releases installed
    installed,               \* history: per user, where helm install went
    cleanup                  \* the last cleanup_deployment call and result

envVars == <<az_account, dir_exists, tf_files>>

genVars == <<tf_content, generated>>

runVars == <<running>>

srvVars == <<terraform_init_status, init_ok, in_flight, overlapped>>

depVars == <<pc, config, deployment_results, registry_result, trace>>

k8sVars == <<kube_context, releases, installed>>

vars == <<az_account, dir_exists, tf_files, tf_content, generated, running,
          provisioned,
          terraform_init_status, init_ok, in_flight, overlapped, last, pc,
          config,
          deployment_results, registry_result, trace, kube_context,
          releases, installed, cleanup>>

(***************************************************************************)
(* Bounds and finite input domains.                                         *)
(***************************************************************************)
NumDirs == 3

\* the /terraform/init requests that wait for terraform at a time
MaxInFlight == 2

Dirs == 1..NumDirs

\* repo_path strings: directory d is reachable under the key <<d, "plain">>
\* and, for directory 1, also under a second spelling <<1, "alias">>
\* ("repos/a" and "./repos/a" name one directory but are two dict keys).
Keys == {<<d, "plain">> : d \in Dirs} \cup {<<1, "alias">>}

DirOf(k) == k[1]

None == <<"None">>

NoOutput == None

AzStates == {"logged_in", "logged_out", "broken"}

\* what a terraform process can do: exit code and its two streams, or hang
ProcOutcomes ==
    { [rc |-> 0, stdout |-> <<"out">>, stderr |-> << >>, hang |-> FALSE],
      [rc |-> 0, stdout |-> <<"out">>, stderr |-> <<"warn">>, hang |-> FALSE],
      [rc |-> 1, stdout |-> << >>, stderr |-> <<"err">>, hang |-> FALSE],
      [rc |-> 1, stdout |-> <<"out">>, stderr |-> << >>, hang |-> TRUE] }

\* no process was started
NoProc == [rc |-> 0 - 1, stdout |-> << >>, stderr |-> << >>, hang |-> FALSE]

(***************************************************************************)
(* azure/services/auth.py and tf_manager.check_azure_auth                   *)
(***************************************************************************)
get_azure_subscriptions ==
    IF az_account = "logged_out" THEN "not_logged_in"
    ELSE IF az_account = "broken" THEN "error"
    ELSE "ok"

check_azure_auth ==
    IF get_azure_subscriptions = "not_logged_in"
      THEN [status |-> "error", message |-> "Azure authentication required",
            output |-> NoOutput]
    ELSE IF get_azure_subscriptions = "error"
      THEN [status |-> "error", message |-> "Azure authentication error",
            output |-> NoOutput]
    ELSE [status |-> "success", message |-> "Azure authentication verified",
          output |-> NoOutput]

(***************************************************************************)
(* tf_manager.run_terraform_cmd.  The fields auth_checked, started and proc  *)
(* are history: whether the authentication precondition was evaluated,      *)
(* whether subprocess.run was reached, and what the process then did.       *)
(***************************************************************************)
\* line 117: 'success' if result.returncode == 0 else 'error'
ExitStatus(proc) == IF proc.rc = 0 THEN "success" ELSE "error"

run_terraform_cmd(cmd, cwd, check_auth, proc) ==
    IF check_auth /\ check_azure_auth.status # "success"
      THEN [status |-> check_azure_auth.status,
            message |-> check_azure_auth.message,
            output |-> NoOutput, auth_checked |-> TRUE, started |-> FALSE,
            proc |-> NoProc]
    ELSE IF ~dir_exists[DirOf(cwd)]
      THEN [status |-> "error", message |-> "Directory does not exist",
            output |-> NoOutput, auth_checked |-> check_auth,
            started |-> FALSE, proc |-> NoProc]
    ELSE IF tf_files[DirOf(cwd)] = {}
      THEN [status |-> "error", message |-> "No Terraform files found",
            output |-> NoOutput, auth_checked |-> check_auth,
            started |-> FALSE, proc |-> NoProc]
    ELSE IF proc.hang
      THEN [status |-> "error",
            message |-> "Terraform command timed out after 5 minutes",
            output |-> NoOutput, auth_checked |-> check_auth,
            started |-> TRUE, proc |-> proc]
    ELSE [status |-> ExitStatus(proc),
          message |-> IF proc.rc = 0
                        THEN "Command completed with status: success"
                        ELSE "Command completed with status: error",
          output |-> proc.stdout \o proc.stderr,
          auth_checked |-> check_auth, started |-> TRUE, proc |-> proc]

init(cwd, proc) == run_terraform_cmd("terraform init", cwd, FALSE, proc)

plan(cwd, proc) == run_terraform_cmd("terraform plan", cwd, TRUE, proc)

apply(cwd, proc) == run_terraform_cmd("terraform apply", cwd, TRUE, proc)

\* mutant: destroy skips the authentication precondition
destroy_noauth(cwd, proc) ==
    run_terraform_cmd("terraform destroy", cwd, FALSE, proc)

destroy(cwd, proc) == run_terraform_cmd("terraform destroy", cwd, TRUE, proc)

\* the verb call as recorded in the history variable last
VerbCall(by, verb, key, r) ==
    [by |-> by, verb |-> verb, key |-> key, az |-> az_account,
     auth_checked |-> r.auth_checked, started |-> r.started,
     status |-> r.status, message |-> r.message, output |-> r.output,
     proc |-> r.proc]

\* the effect of a terraform process on the cloud
Cloud(verb, key, r) ==
    IF r.started /\ r.status = "success" /\ verb = "apply"
      THEN [provisioned EXCEPT ![DirOf(key)] = TRUE]
    ELSE IF r.started /\ r.status = "success" /\ verb = "destroy"
      THEN [provisioned EXCEPT ![DirOf(key)] = FALSE]
    ELSE provisioned

(***************************************************************************)
(* server.py: the /terraform/* handlers                                     *)
(***************************************************************************)
NotInitialized ==
    [status |-> "error", message |-> "Terraform not initialized",
     output |-> NoOutput, auth_checked |-> FALSE, started |-> FALSE,
     proc |-> NoProc]

\* mutant: one flag for all paths
InitStatusGet_global(repo_path) ==
    \E k \in DOMAIN terraform_init_status : terraform_init_status[k]

\* terraform_init_status.get(repo_path)
InitStatusGet(repo_path) ==
    repo_path \in DOMAIN terraform_init_status
      /\ terraform_init_status[repo_path]

DictSet(d, k, v) == [x \in (DOMAIN d) \cup {k} |-> IF x = k THEN v ELSE d[x]]

terraform_init(repo_path) ==
    \E proc \in ProcOutcomes :
      LET result == init(repo_path, proc) IN
        /\ terraform_init_status' =
             IF result.status = "success"
               THEN DictSet(terraform_init_status, repo_path, TRUE)
               ELSE terraform_init_status
        /\ init_ok' = IF result.status = "success"
                        THEN init_ok \cup {repo_path} ELSE init_ok
        /\ overlapped' = overlapped \ {repo_path}
        /\ last' = VerbCall("endpoint", "init", repo_path, result)
        /\ UNCHANGED <<envVars, genVars, runVars, provisioned, in_flight,
                       depVars, k8sVars, cleanup>>

GatedVerb(verb, repo_path, proc) ==
    IF ~InitStatusGet(repo_path) THEN NotInitialized
    ELSE IF verb = "plan" THEN plan(repo_path, proc)
    ELSE IF verb = "apply" THEN apply(repo_path, proc)
    ELSE destroy(repo_path, proc)

terraform_plan(repo_path) ==
    \E proc \in ProcOutcomes :
      LET result == GatedVerb("plan", repo_path, proc) IN
        /\ last' = VerbCall("endpoint", "plan", repo_path, result)
        /\ UNCHANGED <<envVars, genVars, runVars, provisioned, srvVars,
                       depVars, k8sVars, cleanup>>

terraform_apply(repo_path) ==
    \E proc \in ProcOutcomes :
      LET result == GatedVerb("apply", repo_path, proc) IN
        /\ last' = VerbCall("endpoint", "apply", repo_path, result)
        /\ provisioned' = Cloud("apply", repo_path, result)
        /\ UNCHANGED <<envVars, genVars, runVars, srvVars, depVars, k8sVars,
                       cleanup>>

terraform_destroy(repo_path) ==
    \E proc \in ProcOutcomes :
      LET result == GatedVerb("destroy", repo_path, proc) IN
        /\ last' = VerbCall("endpoint", "destroy", repo_path, result)
        /\ provisioned' = Cloud("destroy", repo_path, result)
        /\ UNCHANGED <<envVars, genVars, runVars, srvVars, depVars, k8sVars,
                       cleanup>>

(***************************************************************************)
(* The environment: the az CLI session changes under the program.           *)
(***************************************************************************)
AzSession ==
    /\ \E s \in AzStates : s # az_account /\ az_account' = s
    /\ UNCHANGED <<dir_exists, tf_files, genVars, runVars, provisioned,
                   srvVars, last, depVars, k8sVars, cleanup>>

(***************************************************************************)
(* Names are sequences of characters.                                       *)
(***************************************************************************)
UserIds == { <<"u", "1">>, <<"U", "_", "2">> }

Lower(c) ==
    IF c = "U" THEN "u"
    ELSE IF c = "A" THEN "a"
    ELSE IF c = "K" THEN "k"
    ELSE c

RECURSIVE LowerDropUnderscore(_)
\* user_id.lower().replace('_', '')
LowerDropUnderscore(s) ==
    IF s = << >> THEN << >>
    ELSE IF Head(s) = "_" THEN LowerDropUnderscore(Tail(s))
    ELSE <<Lower(Head(s))>> \o LowerDropUnderscore(Tail(s))

\* f"rg-{user_id}"
ResourceGroup(cfg) == <<"r", "g", "-">> \o cfg.terraform_config.user_id

\* config.get("acr_name") or f"acr{...}registry"
AcrName(cfg) ==
    IF cfg.acr_name = None \/ cfg.acr_name = << >>
      THEN <<"a", "c", "r">>
             \o LowerDropUnderscore(cfg.terraform_config.user_id)
             \o <<"registry">>
      ELSE cfg.acr_name

NoKey == <<0, "none">>

\* one external command of the current operation; ok (did it exit 0) and
\* out (what it listed) are history
Cmd(stage, cmd, key, args, ok) ==
    [stage |-> stage, cmd |-> cmd, key |-> key, args |-> args, ok |-> ok,
     out |-> << >>]

Get(d, k, default) == IF k \in DOMAIN d THEN d[k] ELSE default

(***************************************************************************)
(* server.py: deploy_complete_application builds the config dict            *)
(***************************************************************************)
ClusterName == <<"a", "k", "s", "1">>

ImageName == <<"i", "m", "g">>

AppNames == { None, <<"w", "e", "b">> }

Usernames == { None, << >>, <<"b", "o", "b">> }

\* the pipeline is asked to deploy from a directory that holds a
\* configuration and from one that does not
DeployKeys == { <<1, "plain">>, <<NumDirs, "plain">> }

\* the second user deploys to a cluster of their own
OtherCluster == <<"a", "k", "s", "2">>

AcrVariants ==
    { [user_id |-> <<"u", "1">>, cluster_name |-> ClusterName,
       acr_name |-> None, app_name |-> None],
      [user_id |-> <<"U", "_", "2">>, cluster_name |-> OtherCluster,
       acr_name |-> None, app_name |-> None],
      [user_id |-> <<"u", "1">>, cluster_name |-> ClusterName,
       acr_name |-> <<"m", "y", "a", "c", "r">>, app_name |-> None],
      [user_id |-> <<"u", "1">>, cluster_name |-> ClusterName,
       acr_name |-> None, app_name |-> <<"w", "e", "b">>] }

DeployRequests ==
    { [repo_path |-> k, user_id |-> v.user_id,
       cluster_name |-> v.cluster_name, registry_choice |-> "acr",
       docker_username |-> None, acr_name |-> v.acr_name,
       app_name |-> v.app_name] : k \in DeployKeys, v \in AcrVariants }
    \cup
    { [repo_path |-> k, user_id |-> <<"u", "1">>,
       cluster_name |-> ClusterName, registry_choice |-> "dockerhub",
       docker_username |-> d, acr_name |-> None, app_name |-> None]
        : k \in DeployKeys, d \in Usernames }
    \cup
    { [repo_path |-> k, user_id |-> <<"u", "1">>,
       cluster_name |-> ClusterName, registry_choice |-> "gcr",
       docker_username |-> None, acr_name |-> None, app_name |-> None]
        : k \in DeployKeys }

BuildConfig(req) ==
    [terraform_config |-> [user_id |-> req.user_id,
                           cluster_name |-> req.cluster_name],
     repo_path |-> req.repo_path,
     image_name |-> ImageName,
     image_tag |-> <<"latest">>,
     registry_choice |-> req.registry_choice,
     docker_username |-> req.docker_username,
     acr_name |-> req.acr_name,
     app_name |-> IF req.app_name = None THEN ImageName ELSE req.app_name,
     namespace |-> <<"default">>]

(***************************************************************************)
(* deployment.py: stage 1, _apply_terraform                                 *)
(***************************************************************************)
\* returns the stage result and, as history, the verb call and the commands
_apply_terraform(cfg, proc) ==
    LET apply_result == apply(cfg.repo_path, proc)
        ok == apply_result.status = "success"
    IN
      [result |->
         IF apply_result.status = "success"
           THEN [status |-> "success",
                 message |-> "Infrastructure created successfully",
                 cluster_name |-> cfg.terraform_config.cluster_name,
                 resource_group |-> ResourceGroup(cfg),
                 output |-> apply_result.output]
           ELSE [status |-> "error",
                 message |-> "Terraform apply failed",
                 detail |-> apply_result.message],
       verb |-> "apply",
       call |-> apply_result,
       calls |-> << Cmd(1, "apply", cfg.repo_path, << >>, ok) >>
                   \o IF apply_result.started
                        THEN << Cmd(1, "terraform apply", cfg.repo_path,
                                    << >>, ok) >>
                        ELSE << >>]

(***************************************************************************)
(* acr.py: the registry sub-steps.  e tells which external commands exit 0. *)
(* Every operator returns the sub-step's result dict and, as history, the   *)
(* commands it ran.                                                         *)
(***************************************************************************)
RegistryEnvs ==
    [create : BOOLEAN, login : BOOLEAN, images : BOOLEAN, tag : BOOLEAN,
     push : BOOLEAN, attach : BOOLEAN]

create_acr(name, resource_group, e) ==
    [result |-> IF e.create
                  THEN [status |-> "success", acr_name |-> name,
                        message |-> "ACR created successfully"]
                  ELSE [status |-> "error",
                        message |-> "Failed to create ACR"],
     calls |-> << Cmd(2, "az acr create", NoKey, <<name, resource_group>>,
                      e.create) >>]

login_to_acr(name, e) ==
    [result |-> IF e.login
                  THEN [status |-> "success",
                        message |-> "Successfully logged into ACR"]
                  ELSE [status |-> "error",
                        message |-> "Failed to login to ACR"],
     calls |-> << Cmd(2, "az acr login", NoKey, <<name>>, e.login) >>]

TargetImage(acr_name, repo_name, tag) ==
    acr_name \o <<".azurecr.io", "/">> \o repo_name \o <<":">> \o tag

RECURSIVE Flatten(_)
\* " ".join(cmd) of a command whose arguments are names
Flatten(args) ==
    IF args = << >> THEN << >> ELSE Head(args) \o Flatten(Tail(args))

CommandLine(c) == <<c.cmd>> \o Flatten(c.args)

\* the debug_info of a failed command: its command line and its two
\* streams, each stream named by the command that wrote it
DebugInfo(c) ==
    [command |-> CommandLine(c),
     stderr |-> <<c.cmd, "stderr">>,
     stdout |-> <<c.cmd, "stdout">>]

push_image_to_acr(local_image, acr_name, repo_name, tag, e) ==
    LET target_image == TargetImage(acr_name, repo_name, tag)
        list_cmd == Cmd(2, "docker images", NoKey, << >>, e.images)
        tag_cmd == Cmd(2, "docker tag", NoKey, <<local_image, target_image>>,
                       e.tag)
        push_cmd == Cmd(2, "docker push", NoKey, <<target_image>>, e.push)
    IN
      IF ~e.images
        THEN [result |-> [status |-> "error",
                          message |-> "Docker not available or not running",
                          debug_info |-> DebugInfo(list_cmd)],
              calls |-> <<list_cmd>>]
      ELSE IF ~e.tag
        THEN [result |-> [status |-> "error",
                          message |-> "Failed to tag image",
                          debug_info |->
                            [local_image |-> local_image,
                             target_image |-> target_image,
                             command |-> CommandLine(tag_cmd),
                             stderr |-> <<tag_cmd.cmd, "stderr">>,
                             stdout |-> <<tag_cmd.cmd, "stdout">>,
                             available_images |->
                               <<list_cmd.cmd, "stdout">>]],
              calls |-> <<list_cmd, tag_cmd>>]
      ELSE IF e.push
        THEN [result |-> [status |-> "success",
                          local_image |-> local_image,
                          acr_image |-> target_image,
                          message |-> "Successfully pushed to ACR",
                          debug_info |->
                            [push_output |-> <<push_cmd.cmd, "stdout">>]],
              calls |-> <<list_cmd, tag_cmd, push_cmd>>]
      ELSE [result |-> [status |-> "error",
                        message |-> "Failed to push to ACR",
                        debug_info |-> DebugInfo(push_cmd)],
            calls |-> <<list_cmd, tag_cmd, push_cmd>>]

attach_acr_to_aks(acr_name, aks_name, resource_group, e) ==
    [result |-> IF e.attach
                  THEN [status |-> "success",
                        message |-> "ACR attached to AKS"]
                  ELSE [status |-> "error",
                        message |-> "Failed to attach ACR to AKS"],
     calls |-> << Cmd(2, "az aks update --attach-acr", NoKey,
                      <<acr_name, aks_name, resource_group>>, e.attach) >>]

(***************************************************************************)
(* deployment.py: stage 2, _handle_container_registry                       *)
(***************************************************************************)
_push_to_acr(cfg, e) ==
    LET acr_name == AcrName(cfg)
        resource_group == ResourceGroup(cfg)
        acr_create == create_acr(acr_name, resource_group, e)
        login == login_to_acr(acr_name, e)
        push == push_image_to_acr(cfg.image_name, acr_name, cfg.image_name,
                                  cfg.image_tag, e)
        attach == attach_acr_to_aks(acr_name,
                                    cfg.terraform_config.cluster_name,
                                    resource_group, e)
    IN
      IF login.result.status # "success"
        THEN [result |-> login.result,
              calls |-> acr_create.calls \o login.calls]
      ELSE IF push.result.status = "success"
        THEN [result |-> [status |-> "success", registry_type |-> "acr",
                          acr_name |-> acr_name,
                          image_url |-> push.result.acr_image,
                          acr_attached |-> attach.result.status = "success",
                          message |->
                            "Image pushed to ACR and attached to AKS"],
              calls |-> acr_create.calls \o login.calls \o push.calls
                          \o attach.calls]
      ELSE [result |-> push.result,
            calls |-> acr_create.calls \o login.calls \o push.calls]

\* mutant: only None counts as a missing username
NoUsername_isnone(cfg) == cfg.docker_username = None

\* not docker_username
NoUsername(cfg) == cfg.docker_username = None \/ cfg.docker_username = << >>

_push_to_dockerhub(cfg) ==
    IF NoUsername(cfg)
      THEN [result |-> [status |-> "error",
                        message |->
                          "Docker username required for Docker Hub push"],
            calls |-> << >>]
      ELSE [result |-> [status |-> "success", registry_type |-> "dockerhub",
                        image_url |-> cfg.docker_username \o <<"/">>
                                        \o cfg.image_name \o <<":">>
                                        \o cfg.image_tag,
                        message |-> "Image pushed to Docker Hub"],
            calls |-> << >>]

_handle_container_registry(cfg, e) ==
    IF cfg.registry_choice = "acr" THEN _push_to_acr(cfg, e)
    ELSE IF cfg.registry_choice = "dockerhub" THEN _push_to_dockerhub(cfg)
    ELSE [result |-> [status |-> "error",
                      message |-> "Unknown registry choice"],
          calls |-> << >>]

(***************************************************************************)
(* helm.py and deployment.py: the stage 3 sub-steps                         *)
(***************************************************************************)
MaxServices == 2

\* the services `kubectl get services` can report for a release
ServiceKinds ==
    {"lb_ip", "lb_hostname", "lb_blank", "lb_none", "clusterip", "nodeport"}

RECURSIVE SeqsUpTo(_, _)
SeqsUpTo(S, n) ==
    IF n = 0 THEN { << >> }
    ELSE LET shorter == SeqsUpTo(S, n - 1) IN
           shorter \cup { Append(q, x) : q \in shorter, x \in S }

\* outcome of the endpoint query: it fails, or it lists some services
Queries ==
    { [ok |-> FALSE, items |-> << >>] }
      \cup { [ok |-> TRUE, items |-> q] : q \in SeqsUpTo(ServiceKinds, MaxServices) }

\* which stage 3 commands exit 0; the endpoint query runs only after all of
\* them did, so its outcome is drawn only then
HelmEnvs ==
    { e \in [chart : BOOLEAN, kubectl : BOOLEAN, creds : BOOLEAN,
              helm : BOOLEAN, query : Queries] :
        (e.chart /\ e.kubectl /\ e.creds /\ e.helm)
          \/ e.query = [ok |-> FALSE, items |-> << >>] }

HardResourceGroup ==
    <<"r", "g", "-", "m", "c", "p", "-", "d", "e", "v", "o", "p", "s">>

HardCluster == <<"aks-mcp-devops-new">>

NoContext == <<None, None>>

create_helm_chart(chart_name, app_name, image_repository, e) ==
    [result |-> IF e.chart
                  THEN [status |-> "success", chart_name |-> chart_name,
                        message |-> "Helm chart created successfully"]
                  ELSE [status |-> "error",
                        message |-> "Failed to create Helm chart"],
     calls |-> << Cmd(3, "write chart", NoKey,
                      <<chart_name, image_repository>>, e.chart) >>]

\* a failed credential fetch is reported as success
_configure_kubectl_always(cluster_name, resource_group, e) ==
    [result |-> [status |-> "success",
                 message |-> "kubectl configured for cluster"],
     calls |-> << Cmd(3, "az aks get-credentials", NoKey,
                      <<resource_group, cluster_name>>, e.kubectl) >>]

_configure_kubectl(cluster_name, resource_group, e) ==
    [result |-> IF e.kubectl
                  THEN [status |-> "success",
                        message |-> "kubectl configured for cluster"]
                  ELSE [status |-> "error",
                        message |-> "Failed to configure kubectl"],
     calls |-> << Cmd(3, "az aks get-credentials", NoKey,
                      <<resource_group, cluster_name>>, e.kubectl) >>]

IsCredsCmd(c) == c.cmd = "az aks get-credentials"

\* the kubeconfig binding after the credential calls among calls: the
\* first is _configure_kubectl's, the second install_helm_chart's
KubeContextAfter(calls, e) ==
    LET creds == SelectSeq(calls, IsCredsCmd) IN
      IF Len(creds) = 2 /\ e.creds THEN creds[2].args
      ELSE IF Len(creds) >= 1 /\ e.kubectl THEN creds[1].args
      ELSE kube_context

install_helm_chart(chart_name, release_name, namespace, chart_exists, e) ==
    LET creds_cmd == Cmd(3, "az aks get-credentials", NoKey,
                         <<HardResourceGroup, HardCluster>>, e.creds)
        ns_cmd == Cmd(3, "kubectl create namespace", NoKey, <<namespace>>,
                      TRUE)
        ns_cmds == << ns_cmd, ns_cmd,
                      Cmd(3, "kubectl apply", NoKey, << >>, TRUE) >>
        helm_cmd == Cmd(3, "helm install", NoKey,
                        <<release_name, chart_name, namespace>>, e.helm)
    IN
      IF ~chart_exists
        THEN [result |-> [status |-> "error", message |-> "Chart not found"],
              calls |-> << >>]
      ELSE IF ~e.creds
        THEN [result |-> [status |-> "error",
                          message |-> "Failed to get AKS credentials"],
              calls |-> <<creds_cmd>>]
      ELSE IF e.helm
        THEN [result |-> [status |-> "success",
                          release_name |-> release_name,
                          chart_name |-> chart_name,
                          namespace |-> namespace,
                          message |-> "Helm chart installed",
                          output |-> <<"out">>],
              calls |-> <<creds_cmd>> \o ns_cmds \o <<helm_cmd>>]
      ELSE [result |-> [status |-> "error",
                        message |-> "Failed to install Helm chart",
                        output |-> <<"err">>],
            calls |-> <<creds_cmd>> \o ns_cmds \o <<helm_cmd>>]

\* mutant: the ClusterIP branch is missing
ServiceEndpoints_lbonly(kind) ==
    IF kind \in {"lb_ip", "lb_hostname"}
      THEN << [name |-> kind, type |-> "LoadBalancer", url |-> "http",
               status |-> "ready"] >>
    ELSE IF kind \in {"lb_blank", "lb_none"}
      THEN << [name |-> kind, type |-> "LoadBalancer", url |-> "pending",
               status |-> "pending"] >>
    ELSE << >>

\* the endpoint entries of one service
ServiceEndpoints(kind) ==
    IF kind \in {"lb_ip", "lb_hostname"}
      THEN << [name |-> kind, type |-> "LoadBalancer", url |-> "http",
               status |-> "ready"] >>
    ELSE IF kind = "lb_blank"
      THEN << [name |-> kind, type |-> "LoadBalancer", url |-> "http",
               status |-> "pending"] >>
    ELSE IF kind = "lb_none"
      THEN << [name |-> kind, type |-> "LoadBalancer", url |-> "pending",
               status |-> "pending"] >>
    ELSE IF kind = "clusterip"
      THEN << [name |-> kind, type |-> "ClusterIP", url |-> "internal-only",
               status |-> "ready"] >>
    ELSE << >>

RECURSIVE EndpointsOf(_)
EndpointsOf(items) ==
    IF items = << >> THEN << >>
    ELSE ServiceEndpoints(Head(items)) \o EndpointsOf(Tail(items))

_get_service_endpoints(release_name, namespace, query) ==
    IF query.ok THEN EndpointsOf(query.items)
    ELSE << [error |-> "Failed to get service endpoints"] >>

\* registry_result["image_url"].split(":")[0]
RECURSIVE BeforeColon(_)
BeforeColon(s) ==
    IF s = << >> \/ Head(s) = ":" THEN << >>
    ELSE <<Head(s)>> \o BeforeColon(Tail(s))

_deploy_with_helm(cfg, reg, e) ==
    LET app_name == cfg.app_name
        chart_name == app_name \o <<"-chart">>
        release_name == app_name \o <<"-release">>
        namespace == cfg.namespace
        chart == create_helm_chart(chart_name, app_name,
                                   BeforeColon(reg.image_url), e)
        kubectl_config == _configure_kubectl(cfg.terraform_config.cluster_name,
                                             ResourceGroup(cfg), e)
        install == install_helm_chart(chart_name, release_name, namespace,
                                      TRUE, e)
        query_cmd == [Cmd(3, "kubectl get services", NoKey,
                          <<release_name, namespace>>, e.query.ok)
                        EXCEPT !.out = e.query.items]
    IN
      IF "image_url" \notin DOMAIN reg
        THEN [result |-> [status |-> "error",
                          message |-> "Helm deployment failed"],
              calls |-> << >>]
      ELSE IF chart.result.status # "success"
        THEN [result |-> chart.result, calls |-> chart.calls]
      ELSE IF kubectl_config.result.status # "success"
        THEN [result |-> kubectl_config.result,
              calls |-> chart.calls \o kubectl_config.calls]
      ELSE IF install.result.status = "success"
        THEN [result |-> [status |-> "success", chart_name |-> chart_name,
                          release_name |-> release_name,
                          namespace |-> namespace,
                          endpoints |->
                            _get_service_endpoints(release_name, namespace,
                                                   e.query),
                          message |-> "Application deployed successfully"],
              calls |-> chart.calls \o kubectl_config.calls
                          \o install.calls \o <<query_cmd>>]
      ELSE [result |-> install.result,
            calls |-> chart.calls \o kubectl_config.calls \o install.calls]

(***************************************************************************)
(* deployment.py: deploy_complete_application, one action per stage         *)
(***************************************************************************)
NoResult == [status |-> "None"]

\* mutant: stage 1 never aborts
Stage1Aborts_never(terraform_result) == FALSE

\* line 40: terraform_result["status"] != "success"
Stage1Aborts(terraform_result) == terraform_result.status # "success"

\* line 49: registry_result["status"] != "success"
Stage2Aborts(reg) == reg.status # "success"

\* mutant: the run is a success whatever stage 3 returned
Stage3Succeeds_always(helm_result) == TRUE

\* line 58: helm_result["status"] == "success"
Stage3Succeeds(helm_result) == helm_result.status = "success"

\* mutant: a failed stage rolls the infrastructure back
Abort_rollback(steps, message) ==
    [deployment_results |-> [status |-> "failed", steps |-> steps,
                             overall_success |-> FALSE, message |-> message],
     calls |-> << Cmd(0, "terraform destroy", config.repo_path, << >>,
                      TRUE) >>,
     provisioned |-> [provisioned EXCEPT ![DirOf(config.repo_path)] = FALSE]]

\* lines 41-43, 50-52 and 64-65: a failed stage ends the run; the branch
\* runs no command and leaves the cloud as it is
Abort(steps, message) ==
    [deployment_results |-> [status |-> "failed", steps |-> steps,
                             overall_success |-> FALSE, message |-> message],
     calls |-> << >>,
     provisioned |-> provisioned]

DeployStart(req) ==
    /\ pc \in {"idle", "returned"}
    /\ pc' = "stage1"
    /\ config' = BuildConfig(req)
    /\ deployment_results' = [status |-> "in_progress",
                              steps |-> << >>,
                              overall_success |-> FALSE]
    /\ registry_result' = NoResult
    /\ trace' = << >>
    /\ UNCHANGED <<envVars, genVars, runVars, provisioned, srvVars, last,
                   k8sVars, cleanup>>

Stage1 ==
    /\ pc = "stage1"
    /\ \E proc \in ProcOutcomes :
         LET tf == _apply_terraform(config, proc)
             terraform_result == tf.result
             steps == DictSet(deployment_results.steps, "terraform",
                              terraform_result)
             abort == Abort(steps, "Terraform deployment failed")
         IN
           /\ last' = VerbCall("deploy", tf.verb, config.repo_path, tf.call)
           /\ IF Stage1Aborts(terraform_result)
                THEN /\ deployment_results' = abort.deployment_results
                     /\ trace' = trace \o tf.calls \o abort.calls
                     /\ provisioned' = abort.provisioned
                     /\ pc' = "returned"
                ELSE /\ deployment_results' =
                          [deployment_results EXCEPT !.steps = steps]
                     /\ trace' = trace \o tf.calls
                     /\ provisioned' = Cloud(tf.verb, config.repo_path,
                                             tf.call)
                     /\ pc' = "stage2"
    /\ UNCHANGED <<envVars, genVars, runVars, srvVars, config,
                   registry_result, k8sVars, cleanup>>

Stage2 ==
    /\ pc = "stage2"
    /\ \E e \in RegistryEnvs :
         LET reg == _handle_container_registry(config, e)
             steps == DictSet(deployment_results.steps, "container_registry",
                              reg.result)
             abort == Abort(steps, "Container registry operation failed")
         IN
           /\ registry_result' = reg.result
           /\ IF Stage2Aborts(reg.result)
                THEN /\ deployment_results' = abort.deployment_results
                     /\ trace' = trace \o reg.calls \o abort.calls
                     /\ provisioned' = abort.provisioned
                     /\ pc' = "returned"
                ELSE /\ deployment_results' =
                          [deployment_results EXCEPT !.steps = steps]
                     /\ trace' = trace \o reg.calls
                     /\ UNCHANGED provisioned
                     /\ pc' = "stage3"
    /\ UNCHANGED <<envVars, genVars, runVars, srvVars, last, config, k8sVars,
                   cleanup>>

Stage3 ==
    /\ pc = "stage3"
    /\ \E e \in HelmEnvs :
         LET helm == _deploy_with_helm(config, registry_result, e)
             helm_result == helm.result
             steps == DictSet(deployment_results.steps, "helm_deployment",
                              helm_result)
             abort == Abort(steps, "Helm deployment failed")
             ctx == KubeContextAfter(helm.calls, e)
         IN
           /\ kube_context' = ctx
           /\ releases' =
                IF "release_name" \in DOMAIN helm_result
                  THEN releases \cup
                         { <<helm_result.release_name,
                             helm_result.namespace, ctx>> }
                  ELSE releases
           /\ installed' =
                IF "release_name" \in DOMAIN helm_result
                  THEN [installed EXCEPT
                          ![config.terraform_config.user_id] =
                            [own |-> <<ResourceGroup(config),
                                       config.terraform_config.cluster_name>>,
                             target |-> ctx]]
                  ELSE installed
           /\ IF Stage3Succeeds(helm_result)
                THEN /\ deployment_results' =
                          [status |-> "success", steps |-> steps,
                           overall_success |-> TRUE,
                           message |-> "Complete deployment successful",
                           endpoints |->
                             Get(helm_result, "endpoints", << >>)]
                     /\ trace' = trace \o helm.calls
                     /\ UNCHANGED provisioned
                ELSE /\ deployment_results' = abort.deployment_results
                     /\ trace' = trace \o helm.calls \o abort.calls
                     /\ provisioned' = abort.provisioned
           /\ pc' = "returned"
    /\ UNCHANGED <<envVars, genVars, runVars, srvVars, last, config,
                   registry_result, cleanup>>

(***************************************************************************)
(* helm.py uninstall_helm_release, deployment.py cleanup_deployment and     *)
(* server.py cleanup_complete_deployment                                    *)
(***************************************************************************)
CleanupRequests ==
    [repo_path : Keys, app_name : AppNames \ {None},
     cleanup_helm : BOOLEAN, cleanup_terraform : BOOLEAN]

CleanupEnvs == [uninstall : BOOLEAN, proc : ProcOutcomes]

uninstall_helm_release(release_name, namespace, e) ==
    [result |-> IF e.uninstall
                  THEN [status |-> "success", release_name |-> release_name,
                        message |-> "Helm release uninstalled successfully"]
                  ELSE [status |-> "error",
                        message |-> "Failed to uninstall Helm release"],
     calls |-> << Cmd(0, "helm uninstall", NoKey,
                      <<release_name, namespace>>, e.uninstall) >>]

\* line 388: config.get("cleanup_helm", True)
HelmCleanupRequested(ccfg) == ccfg.cleanup_helm

\* mutant: a failed uninstall ends the cleanup
TerraformCleanupRequested_abort(ccfg, helm_cleanup) ==
    ccfg.cleanup_terraform /\ helm_cleanup.status # "error"

\* line 397: config.get("cleanup_terraform", True), whatever the uninstall did
TerraformCleanupRequested(ccfg, helm_cleanup) == ccfg.cleanup_terraform

\* mutant: a failed destroy is reported as error
OverallStatus_error(helm_cleanup, terraform_cleanup) ==
    IF terraform_cleanup.status \notin {"None", "success"}
      THEN "error" ELSE "success"

\* lines 384 and 406-407: only the terraform result touches the overall status
OverallStatus(helm_cleanup, terraform_cleanup) ==
    IF terraform_cleanup.status \notin {"None", "success"}
      THEN "partial_failure" ELSE "success"

\* the release is looked for under a chart name
CleanupReleaseName_chart(ccfg) == ccfg.app_name \o <<"-chart">>

\* lines 389-390: release_name = f"{app_name}-release"
CleanupReleaseName(ccfg) == ccfg.app_name \o <<"-release">>

cleanup_deployment(ccfg, e) ==
    LET release_name == CleanupReleaseName(ccfg)
        helm == IF HelmCleanupRequested(ccfg)
                  THEN uninstall_helm_release(release_name, ccfg.namespace, e)
                  ELSE [result |-> NoResult, calls |-> << >>]
        verb == destroy(ccfg.repo_path, e.proc)
        ok == verb.status = "success"
        tf == IF TerraformCleanupRequested(ccfg, helm.result)
                THEN [result |-> [status |-> verb.status,
                                  message |-> verb.message,
                                  output |-> verb.output],
                      calls |->
                        << Cmd(0, "destroy", ccfg.repo_path, << >>, ok) >>
                          \o IF verb.started
                               THEN << Cmd(0, "terraform destroy",
                                           ccfg.repo_path, << >>, ok) >>
                               ELSE << >>]
                ELSE [result |-> NoResult, calls |-> << >>]
    IN
      [results |-> [helm_cleanup |-> helm.result,
                    terraform_cleanup |-> tf.result,
                    overall_status |-> OverallStatus(helm.result, tf.result)],
       calls |-> helm.calls \o tf.calls]

IsDestroyCall(c) == c.cmd = "destroy"

cleanup_complete_deployment(req) ==
    \E e \in CleanupEnvs :
      LET ccfg == [repo_path |-> req.repo_path, app_name |-> req.app_name,
                   namespace |-> <<"default">>,
                   cleanup_helm |-> req.cleanup_helm,
                   cleanup_terraform |-> req.cleanup_terraform]
          c == cleanup_deployment(ccfg, e)
          verb == destroy(ccfg.repo_path, e.proc)
          destroyed == SelectSeq(c.calls, IsDestroyCall) # << >>
      IN
        /\ cleanup' = [config |-> ccfg, results |-> c.results,
                       calls |-> c.calls,
                       release_before |->
                         <<CleanupReleaseName(ccfg), ccfg.namespace,
                           kube_context>> \in releases]
        /\ releases' =
             IF c.results.helm_cleanup.status = "success"
               THEN releases \ { <<CleanupReleaseName(ccfg),
                                   ccfg.namespace, kube_context>> }
               ELSE releases
        /\ IF destroyed
             THEN /\ last' = VerbCall("cleanup", "destroy", ccfg.repo_path,
                                      verb)
                  /\ provisioned' = Cloud("destroy", ccfg.repo_path, verb)
             ELSE UNCHANGED <<last, provisioned>>
        /\ UNCHANGED <<envVars, genVars, runVars, srvVars, depVars,
                       kube_context, installed>>

(***************************************************************************)
(* tf_manager.py called directly, as test_terraform_commands.py and the     *)
(* orchestrator do: no init tracking stands before the verb                 *)
(***************************************************************************)
Verbs == {"init", "plan", "apply", "destroy"}

DirectVerb(verb, cwd) ==
    \E proc \in ProcOutcomes :
      LET result == IF verb = "init" THEN init(cwd, proc)
                    ELSE IF verb = "plan" THEN plan(cwd, proc)
                    ELSE IF verb = "apply" THEN apply(cwd, proc)
                    ELSE destroy(cwd, proc)
      IN
        /\ last' = VerbCall("direct", verb, cwd, result)
        /\ provisioned' = Cloud(verb, cwd, result)
        /\ init_ok' = IF verb = "init" /\ result.status = "success"
                        THEN init_ok \cup {cwd} ELSE init_ok
        /\ UNCHANGED <<envVars, genVars, runVars, terraform_init_status,
                       in_flight, overlapped, depVars, k8sVars, cleanup>>

(***************************************************************************)
(* tf_helpers.py: write_tf_file renders main.tf and backend.tf.             *)
(* A document is the sequence of its lines; a line is a fixed text and the  *)
(* value formatted into it.  NoFile stands for a file that does not exist.  *)
(***************************************************************************)
NoFile == << >>

Line(text, value) == [text |-> text, value |-> value]

\* a main.tf that was in the directory before any generation
ExistingDoc == << Line("existing", << >>) >>

\* re.sub(r'[^a-zA-Z0-9]', '', s): "-", "_" and "." are the
\* non-alphanumeric characters of the names used here
NonAlnum == {"-", "_", "."}

RECURSIVE StripNonAlnum(_)
StripNonAlnum(s) ==
    IF s = << >> THEN << >>
    ELSE IF Head(s) \in NonAlnum THEN StripNonAlnum(Tail(s))
    ELSE <<Head(s)>> \o StripNonAlnum(Tail(s))

\* s[:n]
Take(s, n) == IF Len(s) <= n THEN s ELSE SubSeq(s, 1, n)

\* s.lower()
LowerAll(s) == [i \in 1..Len(s) |-> Lower(s[i])]

\* cleaned[:10].lower()
DnsPrefix(cluster_name) == LowerAll(Take(StripNonAlnum(cluster_name), 10))

\* len(dns_prefix) < 2 instead of < 3
DnsPrefixTooShort_two(dns_prefix) == Len(dns_prefix) < 2

\* line 126: len(dns_prefix) < 3
DnsPrefixTooShort(dns_prefix) == Len(dns_prefix) < 3

\* str(b).lower()
BoolText(b) == IF b THEN <<"true">> ELSE <<"false">>

oidc_block(cfg) ==
    IF cfg.enable_oidc
      THEN << Line("oidc_issuer_enabled = true", << >>),
              Line("workload_identity_enabled = true", << >>) >>
      ELSE << >>

auto_scaling_block(cfg) ==
    IF cfg.auto_scaling
      THEN << Line("enable_auto_scaling = true", << >>),
              Line("min_count", <<cfg.min_nodes>>),
              Line("max_count", <<cfg.max_nodes>>) >>
      ELSE << >>

monitoring_block(cfg) ==
    IF cfg.enable_monitoring
      THEN << Line("oms_agent log_analytics_workspace_id", << >>) >>
      ELSE << >>

\* the workspace is rendered whenever the cluster exists, monitored or not
law_block_always(cfg) ==
    << Line("resource azurerm_log_analytics_workspace law",
            <<"L", "A", "W", "-">> \o cfg.cluster_name) >>

law_block(cfg) ==
    IF cfg.enable_monitoring
      THEN << Line("resource azurerm_log_analytics_workspace law",
                   <<"L", "A", "W", "-">> \o cfg.cluster_name) >>
      ELSE << >>

\* getattr(config, 'existing_resource_group', 'rg-mcp-devops'):
\* TerraformConfig declares no such field, so the default is what is used
existing_resource_group(cfg) ==
    IF "existing_resource_group" \in DOMAIN cfg
      THEN cfg.existing_resource_group
      ELSE <<"r", "g", "-", "m", "c", "p", "-", "d", "e", "v", "o", "p", "s">>

\* TEMPLATE.format(...)
main_content(cfg, dns_prefix) ==
    << Line("data azurerm_resource_group rg name",
            existing_resource_group(cfg)) >>
    \o law_block(cfg)
    \o << Line("resource azurerm_kubernetes_cluster aks name",
               cfg.cluster_name),
          Line("resource_group_name = data.azurerm_resource_group.rg.name",
               << >>),
          Line("dns_prefix", dns_prefix),
          Line("node_count", <<cfg.node_count>>) >>
    \o auto_scaling_block(cfg)
    \o << Line("private_cluster_enabled", BoolText(cfg.private_cluster)) >>
    \o oidc_block(cfg)
    \o monitoring_block(cfg)

RECURSIVE LowerDropSeparators(_)
\* user_id.lower().replace('-', '').replace('_', '')
LowerDropSeparators(s) ==
    IF s = << >> THEN << >>
    ELSE IF Head(s) \in {"-", "_"} THEN LowerDropSeparators(Tail(s))
    ELSE <<Lower(Head(s))>> \o LowerDropSeparators(Tail(s))

\* hexdigest()[:8] of a hash over the names and the clock
UniqueSuffixes ==
    { <<"0", "1", "2", "3", "4", "5", "6", "7">>,
      <<"8", "9", "a", "b", "c", "d", "e", "f">> }

storage_account_name(cfg, unique_suffix) ==
    Take(<<"t", "f", "s", "t", "a", "t", "e">>
           \o Take(LowerDropSeparators(cfg.user_id), 8) \o unique_suffix,
         24)

state_key(cfg) ==
    cfg.user_id \o <<"-">> \o cfg.cluster_name \o <<".tfstate">>

\* BACKEND_TEMPLATE.format(...)
backend_content(cfg, unique_suffix) ==
    << Line("backend azurerm storage_account_name",
            storage_account_name(cfg, unique_suffix)),
       Line("container_name tfstate", << >>),
       Line("key", state_key(cfg)) >>

\* the ClusterSpec values the generator is called with: every combination
\* of the four switches on one cluster, and cluster names whose DNS prefix
\* is too short, just long enough, and longer than ten characters
Toggles ==
    [auto_scaling : BOOLEAN, enable_monitoring : BOOLEAN,
     enable_oidc : BOOLEAN, private_cluster : BOOLEAN]

TerraformConfig(user_id, cluster_name, t) ==
    [user_id |-> user_id, cluster_name |-> cluster_name,
     node_count |-> "2", min_nodes |-> "1", max_nodes |-> "3",
     auto_scaling |-> t.auto_scaling,
     enable_monitoring |-> t.enable_monitoring,
     enable_oidc |-> t.enable_oidc,
     private_cluster |-> t.private_cluster]

AllOff ==
    [auto_scaling |-> FALSE, enable_monitoring |-> FALSE,
     enable_oidc |-> FALSE, private_cluster |-> FALSE]

OtherClusterNames ==
    { <<"A", "-", "k">>,
      <<"-", "_">>,
      <<"a", ".", "b", "_", "c">>,
      <<"m", "y", "-", "A", "K", "s", "-", "c", "l", "u", "s", "t", "e",
        "r">> }

\* a user_id longer than the eight characters kept of it, with separators
\* and a dot
LongUserId == <<"j", "o", "h", "n", ".", "d", "o", "e", "-", "x", "_", "y">>

GenConfigs ==
    { TerraformConfig(<<"u", "1">>, ClusterName, t) : t \in Toggles }
    \cup
    { TerraformConfig(<<"U", "_", "2">>, n, AllOff) : n \in OtherClusterNames }
    \cup
    { TerraformConfig(LongUserId, ClusterName, AllOff) }

\* path.is_dir(): a path is a directory and either names it or names the
\* main.tf inside it
IsDir(path) == path[2] = "dir" /\ dir_exists[path[1]]

\* an existing backend.tf is never removed
RemovesBackend_never(use_remote_backend, backend_exists) == FALSE

\* line 112: not use_remote_backend and backend_tf_path.exists()
RemovesBackend(use_remote_backend, backend_exists) ==
    ~use_remote_backend /\ backend_exists

\* returns what the call leaves in tf_dir and whether it raised
write_tf_file(path, cfg, use_remote_backend, unique_suffix) ==
    LET tf_dir == path[1]
        before == tf_content[tf_dir]
        \* lines 110-114
        backend_kept == IF RemovesBackend(use_remote_backend,
                                           before.backend # NoFile)
                          THEN NoFile ELSE before.backend
        dns_prefix == DnsPrefix(cfg.cluster_name)
    IN
      IF DnsPrefixTooShort(dns_prefix)
        THEN [status |-> "ValueError", tf_dir |-> tf_dir,
              content |-> [main |-> before.main, backend |-> backend_kept]]
        ELSE [status |-> "success", tf_dir |-> tf_dir,
              content |->
                [main |-> main_content(cfg, dns_prefix),
                 backend |-> IF use_remote_backend
                               THEN backend_content(cfg, unique_suffix)
                               ELSE backend_kept]]

FilesOf(content) ==
    (IF content.main # NoFile THEN {"main.tf"} ELSE {})
      \cup (IF content.backend # NoFile THEN {"backend.tf"} ELSE {})

\* the state after one call of write_tf_file
Generated(by, path, cfg, use_remote_backend, unique_suffix) ==
    LET r == write_tf_file(path, cfg, use_remote_backend, unique_suffix) IN
      /\ dir_exists' = [dir_exists EXCEPT ![r.tf_dir] = TRUE]
      /\ tf_content' = [tf_content EXCEPT ![r.tf_dir] = r.content]
      /\ tf_files' = [tf_files EXCEPT ![r.tf_dir] = FilesOf(r.content)]
      /\ generated' = [by |-> by, path |-> path, config |-> cfg,
                       use_remote_backend |-> use_remote_backend,
                       backend_before |->
                         tf_content[r.tf_dir].backend # NoFile,
                       status |-> r.status]
      /\ UNCHANGED <<az_account, runVars, provisioned, srvVars, last, depVars,
                     k8sVars, cleanup>>

\* the directories the generator is pointed at
GenDir == 1

GenFileDir == NumDirs

\* write_tf_file(dir, config, use_remote_backend) on a directory that exists
WriteTfFile ==
    \E cfg \in GenConfigs, use_remote_backend \in BOOLEAN,
       unique_suffix \in UniqueSuffixes :
      /\ IsDir(<<GenDir, "dir">>)
      /\ Generated("write_tf_file", <<GenDir, "dir">>, cfg,
                   use_remote_backend, unique_suffix)

\* tf_manager.py: generate_tf_file passes the path of main.tf and leaves
\* use_remote_backend at its default
generate_tf_file(cfg, repo_path) ==
    \E unique_suffix \in UniqueSuffixes :
      Generated("generate_tf_file", <<DirOf(repo_path), "main.tf">>, cfg,
                TRUE, unique_suffix)

GenerateTfFile ==
    \E cfg \in { c \in GenConfigs : c.user_id = <<"U", "_", "2">> } :
      generate_tf_file(cfg, <<GenFileDir, "plain">>)

(***************************************************************************)
(* server.py: /terraform/generate.  TerraformGenerateRequest declares only  *)
(* repo_path and config; a field the request lacks raises AttributeError    *)
(* when the handler reads it, after the directory was created and probed,   *)
(* and the handler returns its error result.                                *)
(***************************************************************************)
RequestConfigs ==
    { TerraformConfig(<<"u", "1">>, ClusterName, AllOff),
      TerraformConfig(<<"U", "_", "2">>, <<"-", "_">>, AllOff) }

\* tf_models.py 24-26: the fields a parsed request has
GenerateRequests ==
    { [repo_path |-> k, config |-> cfg] : k \in Keys, cfg \in RequestConfigs }

HasField(request, field) == field \in DOMAIN request

\* history: one call of the handler, with the request it was given
GenerateCall(request, status) ==
    [by |-> "endpoint", verb |-> "generate", key |-> request.repo_path,
     az |-> az_account, auth_checked |-> FALSE, started |-> FALSE,
     status |-> status,
     message |-> IF status = "success" THEN "None"
                 ELSE "Error generating Terraform files",
     output |-> NoOutput, proc |-> NoProc, config |-> request.config]

\* the init requests on key that are in their worker thread meet a
\* generate request that returns
Overlap(key) ==
    { IF c.key = key THEN [c EXCEPT !.regenerated = TRUE] ELSE c
        : c \in in_flight }

terraform_generate_main_tf(request) ==
    LET tf_dir == DirOf(request.repo_path)
        path == <<tf_dir, "dir">>
        call(status, remote) ==
            [by |-> "endpoint", path |-> path, config |-> request.config,
             use_remote_backend |-> remote,
             backend_before |-> tf_content[tf_dir].backend # NoFile,
             status |-> status]
    IN
      /\ dir_exists' = [dir_exists EXCEPT ![tf_dir] = TRUE]
      /\ in_flight' = Overlap(request.repo_path)
      /\ IF ~HasField(request, "use_remote_backend")
           THEN \* line 1031 raises while its arguments are evaluated
                /\ last' = GenerateCall(request, "error")
                /\ UNCHANGED <<tf_files, genVars, terraform_init_status>>
           ELSE \E unique_suffix \in UniqueSuffixes :
                  LET r == write_tf_file(path, request.config,
                                         request.use_remote_backend,
                                         unique_suffix)
                      ok == r.status = "success"
                  IN
                    /\ tf_content' = [tf_content EXCEPT ![tf_dir] = r.content]
                    /\ tf_files' =
                         [tf_files EXCEPT ![tf_dir] = FilesOf(r.content)]
                    /\ generated' =
                         call(r.status, request.use_remote_backend)
                    \* line 1032
                    /\ terraform_init_status' =
                         IF ok THEN DictSet(terraform_init_status,
                                            request.repo_path, FALSE)
                         ELSE terraform_init_status
                    /\ last' = GenerateCall(request,
                                            IF ok THEN "success" ELSE "error")
      /\ UNCHANGED <<az_account, runVars, provisioned, init_ok, overlapped,
                     depVars, k8sVars, cleanup>>

(***************************************************************************)
(* server.py: /terraform/init is a plain def, which the framework runs in a *)
(* worker thread, while /terraform/generate is a coroutine on the event     *)
(* loop: the generate handler can run from start to end while an init       *)
(* request waits for its terraform process.                                 *)
(***************************************************************************)
InitStart(repo_path) ==
    /\ \A c \in in_flight : c.key # repo_path
    /\ Cardinality(in_flight) < MaxInFlight
    /\ \E proc \in ProcOutcomes :
         in_flight' = in_flight \cup
                        { [key |-> repo_path, result |-> init(repo_path, proc),
                           regenerated |-> FALSE] }
    /\ UNCHANGED <<envVars, genVars, runVars, provisioned,
                   terraform_init_status, init_ok, overlapped, last, depVars,
                   k8sVars, cleanup>>

\* lines 969-971: the thread writes the status and returns
InitFinish ==
    \E c \in in_flight :
      /\ in_flight' = in_flight \ {c}
      /\ terraform_init_status' =
           IF c.result.status = "success"
             THEN DictSet(terraform_init_status, c.key, TRUE)
             ELSE terraform_init_status
      /\ init_ok' = IF c.result.status = "success"
                      THEN init_ok \cup {c.key} ELSE init_ok
      /\ overlapped' = IF c.regenerated THEN overlapped \cup {c.key}
                       ELSE overlapped \ {c.key}
      /\ last' = VerbCall("endpoint", "init", c.key, c.result)
      /\ UNCHANGED <<envVars, genVars, runVars, provisioned, depVars,
                     k8sVars, cleanup>>

(***************************************************************************)
(* The external calls of an operation, one after the other.  Each call is a *)
(* blocking subprocess.run; timeout is the number of seconds the code       *)
(* passes, 0 where it passes none.  on_failure tells whether a non-zero     *)
(* exit or an expired timeout ends the operation or is passed over.         *)
(***************************************************************************)
Call(cmd, timeout, on_failure) ==
    [cmd |-> cmd, timeout |-> timeout, on_failure |-> on_failure]

\* check_azure_auth: auth.py 37-41 and cli/client.py 31-36
AuthCalls ==
    << Call("az account show", 0, "return"),
       Call("az account list", 0, "return") >>

\* tf_manager.py 110
VerbCalls(verb) ==
    (IF verb = "init" THEN << >> ELSE AuthCalls)
      \o << Call(verb, 300, "return") >>

\* acr.py 35, 93, 126, 145, 171, 249
RegistryCalls ==
    << Call("az acr create", 300, "continue"),
       Call("az acr login", 120, "return"),
       Call("docker images", 30, "return"),
       Call("docker tag", 60, "return"),
       Call("docker push", 600, "return"),
       Call("az aks update --attach-acr", 300, "continue") >>

\* deployment.py 302, helm.py 260, 274, 278, 294, deployment.py 334
HelmCalls ==
    << Call("az aks get-credentials", 120, "return"),
       Call("az aks get-credentials", 60, "return"),
       Call("kubectl create namespace", 0, "continue"),
       Call("kubectl create namespace", 0, "continue"),
       Call("kubectl apply", 0, "continue"),
       Call("helm install", 300, "return"),
       Call("kubectl get services", 60, "continue") >>

\* helm.py 360 and destroy
CleanupCalls ==
    << Call("helm uninstall", 120, "continue") >> \o VerbCalls("destroy")

Operations == Verbs \cup {"deploy", "cleanup"}

CallsOf(op) ==
    IF op = "deploy" THEN VerbCalls("apply") \o RegistryCalls \o HelmCalls
    ELSE IF op = "cleanup" THEN CleanupCalls
    ELSE VerbCalls(op)

Idle(status) == [op |-> "none", key |-> NoKey, at |-> 0, status |-> status]

CurrentCall == CallsOf(running.op)[running.at]

\* timeout=... was passed to subprocess.run
Bounded(call) == call.timeout > 0

\* the operation is called
Invoke(op, k) ==
    /\ running.at = 0
    /\ running' = [op |-> op, key |-> k, at |-> 1, status |-> "running"]
    /\ UNCHANGED <<envVars, genVars, provisioned, srvVars, last, depVars,
                   k8sVars, cleanup>>

\* the operation goes on after its current call ended
AfterCall(ok, how) ==
    IF ~ok /\ CurrentCall.on_failure = "return"
      THEN running' = Idle(how)
    ELSE IF running.at < Len(CallsOf(running.op))
      THEN running' = [running EXCEPT !.at = @ + 1]
    ELSE running' = Idle("completed")

\* the external tool exits, with code 0 or not; nothing obliges it to
ToolExits ==
    /\ running.at > 0
    /\ \E ok \in BOOLEAN : AfterCall(ok, "failed")
    /\ UNCHANGED <<envVars, genVars, provisioned, srvVars, last, depVars,
                   k8sVars, cleanup>>

\* subprocess.run raises TimeoutExpired, which the caller turns into an
\* error result
TimeoutExpires ==
    /\ running.at > 0
    /\ Bounded(CurrentCall)
    /\ AfterCall(FALSE, "timed out")
    /\ UNCHANGED <<envVars, genVars, provisioned, srvVars, last, depVars,
                   k8sVars, cleanup>>

(***************************************************************************)
(* Initial state and next-state relation                                    *)
(***************************************************************************)
NoGeneration ==
    [by |-> "none", path |-> NoKey,
     config |-> TerraformConfig(None, None, AllOff),
     use_remote_backend |-> FALSE, backend_before |-> FALSE,
     status |-> "None"]

NoInstall == [own |-> NoContext, target |-> NoContext]

NoCleanup ==
    [config |-> [repo_path |-> NoKey, app_name |-> None,
                 namespace |-> None, cleanup_helm |-> FALSE,
                 cleanup_terraform |-> FALSE],
     results |-> [helm_cleanup |-> NoResult,
                  terraform_cleanup |-> NoResult,
                  overall_status |-> "None"],
     calls |-> << >>,
     release_before |-> FALSE]

NoCall ==
    [by |-> "none", verb |-> "none", key |-> NoKey, az |-> "logged_in",
     auth_checked |-> FALSE, started |-> FALSE,
     status |-> "None", message |-> "None", output |-> NoOutput,
     proc |-> NoProc]

Init ==
    /\ az_account = "logged_in"
    /\ dir_exists = [d \in Dirs |-> d <= 2]
    /\ tf_files = [d \in Dirs |-> IF d <= 2 THEN {"main.tf"} ELSE {}]
    /\ tf_content = [d \in Dirs |->
                       [main |-> IF d <= 2 THEN ExistingDoc ELSE NoFile,
                        backend |-> NoFile]]
    /\ generated = NoGeneration
    /\ running = Idle("None")
    /\ provisioned = [d \in Dirs |-> FALSE]
    /\ terraform_init_status = << >>
    /\ init_ok = {}
    /\ in_flight = {}
    /\ overlapped = {}
    /\ last = NoCall
    /\ pc = "idle"
    /\ config = BuildConfig(CHOOSE r \in DeployRequests : TRUE)
    /\ deployment_results = [status |-> "None", steps |-> << >>,
                             overall_success |-> FALSE]
    /\ registry_result = NoResult
    /\ trace = << >>
    /\ kube_context = NoContext
    /\ releases = {}
    /\ installed = [u \in UserIds |-> NoInstall]
    /\ cleanup = NoCleanup

Runner ==
    \E k \in Keys :
      \/ terraform_init(k)
      \/ terraform_plan(k)
      \/ terraform_apply(k)
      \/ terraform_destroy(k)
      \/ \E request \in GenerateRequests :
           request.repo_path = k /\ terraform_generate_main_tf(request)

Direct ==
    \E verb \in Verbs, k \in Keys :
      \/ DirectVerb(verb, k)
      \/ \E request \in GenerateRequests :
           request.repo_path = k /\ terraform_generate_main_tf(request)

Deploy ==
    \/ \E req \in DeployRequests : DeployStart(req)
    \/ Stage1
    \/ Stage2
    \/ Stage3

Cleanup == \E req \in CleanupRequests : cleanup_complete_deployment(req)

Generate == WriteTfFile \/ GenerateTfFile

Timed ==
    \/ \E op \in Operations, k \in DeployKeys : Invoke(op, k)
    \/ ToolExits
    \/ TimeoutExpires

Next ==
    Runner \/ Direct \/ Deploy \/ Cleanup \/ Generate \/ Timed \/ AzSession

Spec == Init /\ [][Next]_vars

\* the /terraform/* handlers alone
NextRunner == Runner \/ AzSession

SpecRunner == Init /\ [][NextRunner]_vars

\* init requests in worker threads beside the generate handler
\* requests that name one working directory, by either of its paths
SharedDir == 1

Concurrent ==
    \/ \E k \in Keys : DirOf(k) = SharedDir /\ InitStart(k)
    \/ InitFinish
    \/ \E request \in GenerateRequests :
         /\ DirOf(request.repo_path) = SharedDir
         /\ terraform_generate_main_tf(request)

NextConcurrent == Concurrent

SpecConcurrent == Init /\ [][NextConcurrent]_vars

\* the lifecycle verbs of tf_manager.py alone
NextVerbs == Direct \/ AzSession

SpecVerbs == Init /\ [][NextVerbs]_vars

\* the deployment pipeline alone
NextDeploy == Deploy \/ AzSession

SpecDeploy == Init /\ [][NextDeploy]_vars

\* the cleanup operation alone
NextCleanup == Cleanup \/ AzSession

SpecCleanup == Init /\ [][NextCleanup]_vars

\* a client that deploys and afterwards cleans up what it deployed; both
\* handlers are coroutines without a suspension point, so a cleanup starts
\* only when no pipeline is under way
LifecycleRequests ==
    { r \in DeployRequests :
        /\ r.repo_path = <<1, "plain">> /\ r.registry_choice = "acr"
        /\ r.user_id = <<"u", "1">> /\ r.acr_name = None }

LifecycleDeploy ==
    \/ \E req \in LifecycleRequests : cleanup = NoCleanup /\ DeployStart(req)
    \/ Stage1
    \/ Stage2
    \/ Stage3

CleanupDeployed ==
    /\ pc = "returned"
    /\ \E h, t \in BOOLEAN :
         /\ cleanup = NoCleanup \/ (h /\ ~t /\ cleanup.release_before)
         /\ cleanup_complete_deployment(
              [repo_path |-> config.repo_path,
               app_name |-> config.app_name,
               cleanup_helm |-> h, cleanup_terraform |-> t])

NextLifecycle == LifecycleDeploy \/ CleanupDeployed

SpecLifecycle == Init /\ [][NextLifecycle]_vars

\* the document generator alone
NextGenerate == Generate

SpecGenerate == Init /\ [][NextGenerate]_vars

\* the external calls alone; a timeout that was set does expire, a tool
\* need not exit and a client need not call
NextTimed == Timed \/ AzSession

SpecTimed == Init /\ [][NextTimed]_vars /\ WF_vars(TimeoutExpires)

(***************************************************************************)
(* Properties                                                               *)
(***************************************************************************)
Steps == deployment_results.steps

Recorded(n) == n \in DOMAIN Steps

Succeeded(n) == Recorded(n) /\ Steps[n].status = "success"

\* a command of stage k was run in the current pipeline run
Ran(k) == \E i \in 1..Len(trace) : trace[i].stage = k

RanCmd(calls, c) == \E i \in 1..Len(calls) : calls[i].cmd = c

\* C1: the three stages run in the order terraform apply, registry publish,
\* helm deploy; a stage starts only after the previous one returned success,
\* and after a non-success stage nothing later starts and the run ends with
\* overall_success false.
C1_StagesInOrder ==
    /\ \A i, j \in 1..Len(trace) : i < j => trace[i].stage <= trace[j].stage
    /\ Recorded("terraform") => RanCmd(trace, "apply")
    /\ (pc = "stage2" \/ Recorded("container_registry") \/ Ran(2))
         => Succeeded("terraform")
    /\ (pc = "stage3" \/ Recorded("helm_deployment") \/ Ran(3))
         => Succeeded("terraform") /\ Succeeded("container_registry")
    /\ (\E n \in DOMAIN Steps : Steps[n].status # "success")
         => /\ pc = "returned"
            /\ deployment_results.overall_success = FALSE
            /\ deployment_results.status = "failed"

\* C1 witness: stage 2 ran and failed after a successful stage 1, and the
\* run ended without stage 3.
C1_Witness ==
    /\ pc = "returned"
    /\ Succeeded("terraform")
    /\ Recorded("container_registry")
    /\ Steps["container_registry"].status = "error"
    /\ RanCmd(trace, "docker push")
    /\ ~Ran(3)

\* C4: no run of deploy_complete_application invokes terraform destroy or
\* helm uninstall, and once stage 1 has applied the infrastructure it is
\* still provisioned in every later state of the run, a failure of stage 2
\* or stage 3 included.
C4_NoRollback ==
    /\ \A i \in 1..Len(trace) :
         trace[i].cmd \notin {"destroy", "terraform destroy", "helm uninstall"}
    /\ Succeeded("terraform") => provisioned[DirOf(config.repo_path)]

\* C4 witness: stage 3 failed at helm install and the infrastructure of
\* stage 1 is still there.
C4_Witness ==
    /\ pc = "returned"
    /\ Recorded("helm_deployment")
    /\ Steps["helm_deployment"].status = "error"
    /\ RanCmd(trace, "helm install")
    /\ provisioned[DirOf(config.repo_path)]

\* C8: with registry_choice dockerhub and no docker_username, once stage 1
\* has succeeded the container_registry step is an error naming the missing
\* username, overall_success is false, no helm_deployment entry exists and
\* no stage 3 command (chart, credentials, helm install) is run.
C8_MissingUsername ==
    (config.registry_choice = "dockerhub"
       /\ config.docker_username \in {None, << >>})
      => /\ pc # "stage3"
         /\ ~Ran(3)
         /\ ~Recorded("helm_deployment")
         /\ (Succeeded("terraform") /\ pc = "returned")
              => /\ Recorded("container_registry")
                 /\ Steps["container_registry"].status = "error"
                 /\ Steps["container_registry"].message =
                      "Docker username required for Docker Hub push"
                 /\ deployment_results.overall_success = FALSE

\* C8 witness: such a run has returned after a successful stage 1.
C8_Witness ==
    /\ config.registry_choice = "dockerhub"
    /\ config.docker_username = << >>
    /\ pc = "returned"
    /\ Succeeded("terraform")
    /\ Recorded("container_registry")

HasStatus(ep) == "status" \in DOMAIN ep /\ ep.status \in {"ready", "pending"}

FullSuccessAcr ==
    /\ pc = "returned"
    /\ config.registry_choice = "acr"
    /\ Succeeded("terraform")
    /\ Succeeded("container_registry")
    /\ Succeeded("helm_deployment")

\* C9 as stated: on the full success path with acr, overall_success is true
\* and endpoints holds at least one entry whose status is ready or pending,
\* whatever the endpoint query did.
C9_Original ==
    FullSuccessAcr
      => /\ deployment_results.overall_success
         /\ \E i \in 1..Len(deployment_results.endpoints) :
              HasStatus(deployment_results.endpoints[i])

\* C9 amended: on the full success path with acr, overall_success is true;
\* endpoints holds an entry with status ready or pending exactly when the
\* endpoint query succeeded and listed a LoadBalancer or ClusterIP service;
\* a failed query leaves one error entry without a status, and every entry
\* that has a status has ready or pending.
C9_EndpointsOnSuccess ==
    FullSuccessAcr
      => LET eps == deployment_results.endpoints
             q == trace[Len(trace)]
         IN
           /\ deployment_results.overall_success
           /\ q.cmd = "kubectl get services"
           /\ \A i \in 1..Len(eps) :
                HasStatus(eps[i]) \/ DOMAIN eps[i] = {"error"}
           /\ (\E i \in 1..Len(eps) : HasStatus(eps[i]))
                <=> (q.ok /\ \E j \in 1..Len(q.out) : q.out[j] # "nodeport")
           /\ ~q.ok => Len(eps) = 1 /\ DOMAIN eps[1] = {"error"}

\* C9 witness: a full success whose endpoint is still pending.
C9_Witness ==
    /\ FullSuccessAcr
    /\ deployment_results.overall_success
    /\ \E i \in 1..Len(deployment_results.endpoints) :
         /\ HasStatus(deployment_results.endpoints[i])
         /\ deployment_results.endpoints[i].status = "pending"

\* C10 as stated: in the acr path the sub-steps run in the order create,
\* login, tag, push, attach, and a failing sub-step (create and attach
\* included) is the last one run and makes the stage result an error.
C10_SubstepFailureStops ==
    \A i \in 1..Len(trace) :
      (trace[i].stage = 2 /\ ~trace[i].ok)
        => /\ \A j \in 1..Len(trace) : j > i => trace[j].stage # 2
           /\ registry_result.status = "error"

\* C5: with both sub-operations requested, a successful helm uninstall and
\* a failed terraform destroy give overall status partial_failure.
C5_PartialFailure ==
    (/\ cleanup.config.cleanup_helm
     /\ cleanup.config.cleanup_terraform
     /\ cleanup.results.helm_cleanup.status = "success"
     /\ cleanup.results.terraform_cleanup.status # "success")
      => cleanup.results.overall_status = "partial_failure"

\* C5 witness: uninstall succeeded and the terraform destroy process ran
\* and failed.
C5_Witness ==
    /\ cleanup.config.cleanup_helm
    /\ cleanup.config.cleanup_terraform
    /\ cleanup.results.helm_cleanup.status = "success"
    /\ cleanup.results.terraform_cleanup.status = "error"
    /\ RanCmd(cleanup.calls, "terraform destroy")

\* C6 as stated: the overall cleanup status is success only when every
\* requested sub-operation succeeded; a failed helm uninstall makes it
\* partial_failure.
C6_AnyFailureDowngrades ==
    /\ cleanup.results.helm_cleanup.status = "error"
         => cleanup.results.overall_status = "partial_failure"
    /\ cleanup.results.terraform_cleanup.status = "error"
         => cleanup.results.overall_status = "partial_failure"
    /\ cleanup.results.overall_status = "success"
         => /\ cleanup.results.helm_cleanup.status \in {"None", "success"}
            /\ cleanup.results.terraform_cleanup.status
                 \in {"None", "success"}

\* C7: with both sub-operations requested, destroy is called after the helm
\* uninstall whether the uninstall succeeded or failed; a sub-operation that
\* was not requested is not invoked.
C7_BestEffort ==
    LET calls == cleanup.calls IN
      /\ (cleanup.config.cleanup_helm /\ cleanup.config.cleanup_terraform)
           => /\ Len(calls) >= 2
              /\ calls[1].cmd = "helm uninstall"
              /\ calls[2].cmd = "destroy"
              /\ cleanup.results.terraform_cleanup.status # "None"
      /\ ~cleanup.config.cleanup_helm
           => /\ ~RanCmd(calls, "helm uninstall")
              /\ cleanup.results.helm_cleanup.status = "None"
      /\ ~cleanup.config.cleanup_terraform
           => /\ ~RanCmd(calls, "destroy")
              /\ ~RanCmd(calls, "terraform destroy")
              /\ cleanup.results.terraform_cleanup.status = "None"

\* C7 witness: the uninstall failed and terraform destroy ran all the same.
C7_Witness ==
    /\ cleanup.config.cleanup_helm
    /\ cleanup.config.cleanup_terraform
    /\ cleanup.results.helm_cleanup.status = "error"
    /\ RanCmd(cleanup.calls, "terraform destroy")

GatedVerbs == {"plan", "apply", "destroy"}

\* C2: a /terraform/plan, /terraform/apply or /terraform/destroy call on a
\* repo_path on which no init has succeeded returns an error and starts no
\* terraform process; the tracking is per repo_path.
C2_InitGate ==
    (last.by = "endpoint" /\ last.verb \in GatedVerbs
       /\ last.key \notin init_ok)
      => /\ last.status = "error"
         /\ last.message = "Terraform not initialized"
         /\ ~last.started

\* C2 witness: init has succeeded on another directory, and apply on a
\* directory that holds a configuration but was never initialized is refused.
C2_Witness ==
    /\ last.by = "endpoint"
    /\ last.verb = "apply"
    /\ last.key \notin init_ok
    /\ \E k \in init_ok : DirOf(k) # DirOf(last.key)
    /\ tf_files[DirOf(last.key)] # {}
    /\ last.az = "logged_in"
    /\ ~last.started

AuthMessages ==
    {"Azure authentication required", "Azure authentication error"}

\* C3: plan, apply and destroy evaluate the authentication precondition
\* first: when it reports not-logged-in or an error the verb returns that
\* error, before any look at the directory, and starts no terraform
\* process.  init never evaluates it and runs terraform while
\* unauthenticated.
C3_AuthFirst ==
    /\ (last.by = "direct" /\ last.verb \in GatedVerbs)
         => /\ last.auth_checked
            /\ last.az # "logged_in"
                 => /\ last.status = "error"
                    /\ last.message \in AuthMessages
                    /\ ~last.started
    /\ (last.by = "direct" /\ last.verb = "init")
         => /\ ~last.auth_checked
            /\ tf_files[DirOf(last.key)] # {} => last.started

\* C3 witness: destroy, called while logged out on a directory that does
\* not exist, reports the authentication error.
C3_Witness ==
    /\ last.by = "direct"
    /\ last.verb = "destroy"
    /\ last.az = "logged_out"
    /\ ~dir_exists[DirOf(last.key)]
    /\ last.message = "Azure authentication required"
    /\ ~last.started

(***************************************************************************)
(* Diagnostics of a failed publish.                                         *)
(***************************************************************************)
PushFailed ==
    \E i \in 1..Len(trace) : trace[i].cmd = "docker push" /\ ~trace[i].ok

\* C11 as stated: when the publish fails at docker push, after a successful
\* docker tag, the error's debug_info still shows the output of the tag
\* sub-step next to the push command and its output.
C11_TagVisibleOnPushFailure ==
    PushFailed
      => /\ "debug_info" \in DOMAIN registry_result
         /\ \E f \in DOMAIN registry_result.debug_info :
              registry_result.debug_info[f]
                \in { <<"docker tag", "stdout">>, <<"docker tag", "stderr">> }

(***************************************************************************)
(* The cluster the installer talks to.                                      *)
(***************************************************************************)
\* C12 as stated: when helm install is invoked, the most recent successful
\* az aks get-credentials before it named the resource group and the
\* cluster_name of the deployment's own configuration.
C12_InstallBoundToTarget ==
    \A i \in 1..Len(trace) :
      trace[i].cmd = "helm install"
        => \E j \in 1..(i - 1) :
             /\ IsCredsCmd(trace[j]) /\ trace[j].ok
             /\ \A k \in (j + 1)..(i - 1) :
                  ~(IsCredsCmd(trace[k]) /\ trace[k].ok)
             /\ trace[j].args
                  = <<ResourceGroup(config),
                      config.terraform_config.cluster_name>>

(***************************************************************************)
(* Names flowing from the generated document into the later stages.         *)
(***************************************************************************)
\* the value formatted into the line of a document that has the given text
DocValue(doc, text) ==
    (CHOOSE l \in { doc[i] : i \in 1..Len(doc) } : l.text = text).value

\* main.tf as write_tf_file renders it for the ClusterSpec of a deployment
DocOf(cfg) ==
    main_content(TerraformConfig(cfg.terraform_config.user_id,
                                 cfg.terraform_config.cluster_name, AllOff),
                 DnsPrefix(cfg.terraform_config.cluster_name))

\* C13 as stated: the resource group that az acr create, the attach and the
\* credential fetch are given is the resource group in which the document
\* generated from the same ClusterSpec places the cluster, and the cluster
\* name they are given is the cluster name of that document.
C13_NamesFlowForward ==
    LET rg == DocValue(DocOf(config), "data azurerm_resource_group rg name")
        aks == DocValue(DocOf(config),
                        "resource azurerm_kubernetes_cluster aks name")
    IN
      \A i \in 1..Len(trace) :
        /\ trace[i].cmd = "az acr create" => trace[i].args[2] = rg
        /\ trace[i].cmd = "az aks update --attach-acr"
             => trace[i].args[3] = rg /\ trace[i].args[2] = aks
        /\ IsCredsCmd(trace[i])
             => trace[i].args[1] = rg /\ trace[i].args[2] = aks

(***************************************************************************)
(* The document generator.                                                  *)
(***************************************************************************)
\* C14: a generate call whose cluster_name, stripped of non-alphanumerics,
\* cut to 10 characters and lowercased, has fewer than 3 characters fails
\* with the validation error, and the call writes neither main.tf nor
\* backend.tf: main.tf is what it was and backend.tf is not written anew.
C14_ShortPrefixWritesNothing ==
    [][ (/\ generated'.status # "None"
         /\ Len(DnsPrefix(generated'.config.cluster_name)) < 3)
          => /\ generated'.status = "ValueError"
             /\ \A d \in Dirs :
                  /\ tf_content'[d].main = tf_content[d].main
                  /\ \/ tf_content'[d].backend = tf_content[d].backend
                     \/ tf_content'[d].backend = NoFile ]_vars

\* C14 witness: a cluster name with a two-character prefix was refused in a
\* directory that holds an earlier generated main.tf.
C14_Witness ==
    /\ generated.status = "ValueError"
    /\ generated.config.cluster_name = <<"A", "-", "k">>
    /\ generated.path = <<GenDir, "dir">>
    /\ tf_content[GenDir].main
         = main_content(TerraformConfig(<<"u", "1">>, ClusterName, AllOff),
                        DnsPrefix(ClusterName))

Contains(doc, text) == \E i \in 1..Len(doc) : doc[i].text = text

\* main.tf of the directory the last generate call wrote to
GeneratedMain == tf_content[generated.path[1]].main

\* C15: after a successful generate call the document has the autoscaling
\* block iff auto_scaling, the monitoring block iff enable_monitoring, the
\* log-analytics workspace iff enable_monitoring, the OIDC block iff
\* enable_oidc, and private_cluster_enabled is the text of private_cluster.
C15_BlocksFollowToggles ==
    generated.status = "success"
      => /\ Contains(GeneratedMain, "enable_auto_scaling = true")
              <=> generated.config.auto_scaling
         /\ Contains(GeneratedMain, "oms_agent log_analytics_workspace_id")
              <=> generated.config.enable_monitoring
         /\ Contains(GeneratedMain,
                     "resource azurerm_log_analytics_workspace law")
              <=> generated.config.enable_monitoring
         /\ Contains(GeneratedMain, "oidc_issuer_enabled = true")
              <=> generated.config.enable_oidc
         /\ DocValue(GeneratedMain, "private_cluster_enabled")
              = IF generated.config.private_cluster
                  THEN <<"true">> ELSE <<"false">>

\* C15 witness: a document generated with autoscaling and OIDC on and
\* monitoring off, for a private cluster.
C15_Witness ==
    /\ generated.status = "success"
    /\ generated.config.auto_scaling
    /\ ~generated.config.enable_monitoring
    /\ generated.config.enable_oidc
    /\ generated.config.private_cluster
    /\ Contains(GeneratedMain, "min_count")
    /\ ~Contains(GeneratedMain, "resource azurerm_log_analytics_workspace law")

\* C16: after a successful generate call backend.tf exists in the
\* directory if and only if that call asked for the remote backend,
\* whatever calls came before.
C16_BackendIffRemote ==
    generated.status = "success"
      => (tf_content[generated.path[1]].backend # NoFile
            <=> generated.use_remote_backend)

\* C16 witness: a successful local-state generation in a directory that
\* held the backend.tf of an earlier remote-state generation.
C16_Witness ==
    /\ generated.status = "success"
    /\ ~generated.use_remote_backend
    /\ generated.backend_before
    /\ generated.path = <<GenDir, "dir">>
    /\ tf_content[GenDir].backend = NoFile
    /\ "backend.tf" \notin tf_files[GenDir]

(***************************************************************************)
(* What a result tells the operator.                                        *)
(***************************************************************************)
\* C17 as stated: every result of deploy_complete_application has a
\* message, and when stage 1 failed because terraform apply ran and exited
\* non-zero, steps.terraform carries the output of that process.
C17_MessageAndRawOutput ==
    pc = "returned"
      => /\ "message" \in DOMAIN deployment_results
         /\ (/\ last.by = "deploy" /\ last.started
             /\ last.status # "success" /\ last.output # NoOutput)
              => /\ "output" \in DOMAIN Steps.terraform
                 /\ Steps.terraform.output = last.output

(***************************************************************************)
(* The result of a lifecycle verb whose process was started.                *)
(***************************************************************************)
\* C18 as stated: for every verb call that started the terraform process,
\* status is success exactly when the process exited with code 0, and
\* output is what the process wrote to stdout followed by what it wrote to
\* stderr, whatever the outcome.
C18_StatusAndOutput ==
    last.started
      => /\ last.status = "success"
              <=> (~last.proc.hang /\ last.proc.rc = 0)
         /\ last.output = last.proc.stdout \o last.proc.stderr

(***************************************************************************)
(* Pipelines of different users.  The request handler has no suspension     *)
(* point (every external call is a blocking subprocess.run), so pipelines   *)
(* served by one process run one after the other, in any order.             *)
(***************************************************************************)
\* C19 as stated: when pipelines of two different users with different
\* clusters have both installed their release, each helm install went to
\* the cluster of its own pipeline.
C19_PipelinesIsolated ==
    \A u, v \in UserIds :
      (/\ installed[u] # NoInstall /\ installed[v] # NoInstall
       /\ installed[u].own # installed[v].own)
        => /\ installed[u].target = installed[u].own
           /\ installed[v].target = installed[v].own

(***************************************************************************)
(* Termination.                                                             *)
(***************************************************************************)
\* C20 as stated: every external call made by a lifecycle verb, by
\* deploy_complete_application or by cleanup_deployment is bounded by a
\* timeout, so an operation that was called eventually returns even if a
\* tool never exits.
C20_EveryOperationReturns == (running.at > 0) ~> (running.at = 0)

(***************************************************************************)
(* Deploy followed by cleanup                                               *)
(***************************************************************************)
UninstallRequested == cleanup # NoCleanup /\ cleanup.config.cleanup_helm

\* C21 as stated: uninstalling a release that is already absent returns the
\* same status and result shape as uninstalling an existing release (status
\* success with the release name) and leaves the release absent.
C21_UninstallIdempotent ==
    (UninstallRequested /\ ~cleanup.release_before)
      => /\ cleanup.results.helm_cleanup.status = "success"
         /\ DOMAIN cleanup.results.helm_cleanup
              = {"status", "release_name", "message"}
         /\ <<CleanupReleaseName(cleanup.config), cleanup.config.namespace,
              kube_context>> \notin releases

InstallArgs ==
    { <<trace[i].args[1], trace[i].args[3]>> :
        i \in { j \in 1..Len(trace) : trace[j].cmd = "helm install" } }

UninstallArgs ==
    { cleanup.calls[i].args :
        i \in { j \in 1..Len(cleanup.calls) :
                  cleanup.calls[j].cmd = "helm uninstall" } }

KeysOf(calls, c) ==
    { calls[i].key : i \in { j \in 1..Len(calls) : calls[j].cmd = c } }

FullCleanup ==
    /\ cleanup.config.cleanup_helm
    /\ cleanup.config.cleanup_terraform
    /\ cleanup.results.helm_cleanup.status = "success"
    /\ cleanup.results.terraform_cleanup.status = "success"
    /\ cleanup.results.overall_status = "success"

\* C30: for the configuration of a deployment, the release name and
\* namespace that cleanup uninstalls are those that the deployment
\* installed and the directory it destroys is the one the deployment
\* applied; after a successful deployment followed by a fully successful
\* cleanup neither the release nor the infrastructure is left.
C30_CleanupSymmetric ==
    (pc = "returned" /\ cleanup # NoCleanup)
      => /\ \A u \in UninstallArgs :
              /\ u = <<config.app_name \o <<"-release">>, config.namespace>>
              /\ \A i \in InstallArgs : u = i
         /\ \A d \in KeysOf(cleanup.calls, "terraform destroy") :
              /\ d = config.repo_path
              /\ \A a \in KeysOf(trace, "terraform apply") : d = a
         /\ (deployment_results.overall_success /\ FullCleanup)
              => /\ \A r \in releases :
                      ~(/\ r[1] = config.app_name \o <<"-release">>
                        /\ r[2] = config.namespace)
                 /\ ~provisioned[DirOf(config.repo_path)]

\* C30 witness: a deployment that installed its release and applied its
\* directory was followed by a cleanup that found the release, uninstalled
\* it and ran terraform destroy, both with success.
C30_Witness ==
    /\ pc = "returned"
    /\ deployment_results.overall_success
    /\ InstallArgs # {}
    /\ KeysOf(trace, "terraform apply") # {}
    /\ FullCleanup
    /\ cleanup.release_before
    /\ UninstallArgs # {}
    /\ KeysOf(cleanup.calls, "terraform destroy") # {}

\* C28 as stated: the init status of a repo_path is true only if the most
\* recent init attempt on that path succeeded; an init that fails on an
\* initialized path marks the path as not initialized.
C28_StatusFollowsLastInit ==
    (last.by = "endpoint" /\ last.verb = "init" /\ last.status # "success")
      => ~InitStatusGet(last.key)

\* C29 as stated: a generate call that fails on the DNS-prefix validation
\* leaves the files of the target directory as they were before the call;
\* an existing backend.tf is still present after a failing call made with
\* use_remote_backend false.
C29_FailedGenerateChangesNothing ==
    [][generated'.status = "ValueError"
         => /\ tf_content' = tf_content
            /\ tf_files' = tf_files]_vars

\* the storage account names in the backend.tf documents on disk
StorageAccountNames ==
    { DocValue(tf_content[d].backend, "backend azurerm storage_account_name")
        : d \in { x \in 1..NumDirs : tf_content[x].backend # NoFile } }

\* C22 as stated: for every user_id and cluster_name, the storage account
\* name written into backend.tf is at most 24 characters long and consists
\* only of alphanumeric characters.
C22_StorageAccountName ==
    \A n \in StorageAccountNames :
      /\ Len(n) <= 24
      /\ \A i \in 1..Len(n) : n[i] \notin NonAlnum

\* C23 as stated: stage 1 of the pipeline starts terraform apply, and the
\* cleanup starts terraform destroy, on a working directory only after init
\* has completed successfully for that directory; on a directory that was
\* never initialized the stage returns an error without starting terraform.
C23_OrchestratorInitFirst ==
    /\ RanCmd(trace, "terraform apply")
         => /\ config.repo_path \in init_ok
            /\ InitStatusGet(config.repo_path)
    /\ RanCmd(cleanup.calls, "terraform destroy")
         => /\ cleanup.config.repo_path \in init_ok
            /\ InitStatusGet(cleanup.config.repo_path)

IsStage3(c) == c.stage = 3

Stage3Cmds == SelectSeq(trace, IsStage3)

At(calls, c) == { i \in 1..Len(calls) : calls[i].cmd = c }

\* C24: within stage 3 the steps run in the order generate chart, bind
\* cluster credentials, helm install, resolve endpoints; a failure of chart
\* generation or of credential binding is returned as the stage result and
\* helm install is not invoked; endpoints are resolved only after an install
\* that succeeded.
C24_Stage3Order ==
    LET t == Stage3Cmds
        charts == At(t, "write chart")
        creds == At(t, "az aks get-credentials")
        installs == At(t, "helm install")
        queries == At(t, "kubectl get services")
    IN
      /\ t # << >> => t[1].cmd = "write chart"
      /\ \A i \in creds : \E j \in charts : j < i /\ t[j].ok
      /\ \A i \in installs :
           /\ \E j \in charts : j < i /\ t[j].ok
           /\ \E j \in creds : j < i
           /\ \A j \in creds : j < i /\ t[j].ok
      /\ \A i \in queries : \E j \in installs : j < i /\ t[j].ok
      /\ (\E j \in charts : ~t[j].ok)
           => /\ installs = {} /\ creds = {} /\ queries = {}
              /\ pc = "returned"
                   => /\ Steps["helm_deployment"].status = "error"
                      /\ Steps["helm_deployment"].message
                           = "Failed to create Helm chart"
      /\ (creds # {} /\ ~t[2].ok)
           => /\ installs = {} /\ queries = {}
              /\ pc = "returned"
                   => /\ Steps["helm_deployment"].status = "error"
                      /\ Steps["helm_deployment"].message
                           = "Failed to configure kubectl"

\* C24 witness: the chart was written, the credential binding failed and
\* the stage returned without a helm install.
C24_Witness ==
    /\ pc = "returned"
    /\ Len(Stage3Cmds) = 2
    /\ Stage3Cmds[1].cmd = "write chart" /\ Stage3Cmds[1].ok
    /\ Stage3Cmds[2].cmd = "az aks get-credentials" /\ ~Stage3Cmds[2].ok
    /\ Recorded("helm_deployment")

StageOrder == <<"terraform", "container_registry", "helm_deployment">>

\* C25: every result returned by deploy_complete_application with a steps
\* map has as step keys a prefix of terraform, container_registry,
\* helm_deployment; every recorded step except possibly the last has status
\* success; overall_success is true iff all three steps are recorded with
\* status success iff the top-level status is success; the returned status
\* is never in_progress.
C25_ResultInvariant ==
    pc = "returned"
      => /\ \E n \in 0..3 :
              /\ DOMAIN Steps = { StageOrder[i] : i \in 1..n }
              /\ \A i \in 1..(n - 1) : Succeeded(StageOrder[i])
         /\ deployment_results.overall_success
              <=> \A i \in 1..3 : Succeeded(StageOrder[i])
         /\ deployment_results.overall_success
              <=> deployment_results.status = "success"
         /\ deployment_results.status # "in_progress"

\* C25 witness: a run returned after stage 3 failed, with two successful
\* steps before the failed one.
C25_Witness ==
    /\ pc = "returned"
    /\ Succeeded("terraform")
    /\ Succeeded("container_registry")
    /\ Recorded("helm_deployment")
    /\ ~Succeeded("helm_deployment")
    /\ deployment_results.status = "failed"

\* C26 as stated, for a request whose configuration passes the generator's
\* validation: after /terraform/generate for a repo_path has returned, the
\* call was a success and the init status of that repo_path is reset, so
\* plan, apply and destroy on it are refused until a later init succeeds.
C26_GenerateResetsInit ==
    (/\ last.by = "endpoint"
     /\ last.verb = "generate"
     /\ ~DnsPrefixTooShort(DnsPrefix(last.config.cluster_name)))
      => /\ last.status = "success"
         /\ ~InitStatusGet(last.key)

\* C27 as stated: when a generate request for a path has returned while an
\* init request for that path was in its worker thread, the path is not
\* marked initialized after both have finished.
C27_ConcurrentInitSafe ==
    \A k \in overlapped :
      (\A c \in in_flight : c.key # k) => ~InitStatusGet(k)

====
